---- MODULE Spec2Model ----
\* Model of scripts/sample_images.py: the command-line entry point and
\* run_model, the batched scene-graph sampling and evaluation pass.
EXTENDS Integers, Sequences, FiniteSets, TLC

\* ---------------------------------------------------------------- bounds
MaxBatches == 2   \* batches the loader yields at most
MaxImgs == 2      \* images per batch at most
MaxObjs == 2      \* objects per image at most
MaxTriples == 2   \* triples per batch at most, when split is taken on its own

Cats == {1, 2}          \* object-category identifiers
Preds == {7}            \* predicate identifiers
PredShifts == {0, 1}    \* how far the model's predicted boxes are off

\* -------------------------------------------------------------- helpers
None == [some |-> FALSE, val |-> <<>>]
Some(v) == [some |-> TRUE, val |-> v]

Min(a, b) == IF a < b THEN a ELSE b
Max(a, b) == IF a > b THEN a ELSE b

RECURSIVE SumSeq(_)
SumSeq(s) == IF s = <<>> THEN 0 ELSE Head(s) + SumSeq(Tail(s))

RECURSIVE Concat(_)
Concat(ss) == IF ss = <<>> THEN <<>> ELSE Head(ss) \o Concat(Tail(ss))

\* ------------------------------------------------ '%04d.png' % img_idx
RECURSIVE Digits(_)
Digits(n) == IF n < 10 THEN <<n>> ELSE Digits(n \div 10) \o <<n % 10>>

RECURSIVE ZeroPad(_, _)
ZeroPad(s, w) == IF Len(s) >= w THEN s ELSE ZeroPad(<<0>> \o s, w)

ImgFilename(n) == [stem |-> ZeroPad(Digits(n), 4), ext |-> "png"]

NoName == [stem |-> <<>>, ext |-> ""]

\* ------------------------------------------------ flattened graph batch
\* The batch assembler packs per-image graphs into parallel arrays; sz is
\* the sequence of per-image object counts.
Offset(sz, i) == SumSeq(SubSeq(sz, 1, i - 1))

ObjToImg(sz) ==
    [k \in 1..SumSeq(sz) |->
        (CHOOSE i \in 1..Len(sz) : Offset(sz, i) < k /\ k <= Offset(sz, i) + sz[i]) - 1]

\* ground-truth box of the k-th object: 1, 2 or 4 wide, 2 high
BoxWidth(k) == IF k % 3 = 0 THEN 1 ELSE IF k % 3 = 1 THEN 2 ELSE 4

BoxAt(k) == <<k, 0, k + BoxWidth(k), 2>>

MkBatch(sz, c, trs, hasMasks) ==
    [nImgs |-> Len(sz),
     objs |-> [k \in 1..SumSeq(sz) |-> IF (k + c) % 2 = 0 THEN 1 ELSE 2],
     boxes |-> [k \in 1..SumSeq(sz) |-> BoxAt(k)],
     masks |-> IF hasMasks THEN Some([k \in 1..SumSeq(sz) |-> 100 + k]) ELSE None,
     triples |-> [k \in 1..Len(trs) |-> trs[k].t],
     obj_to_img |-> ObjToImg(sz),
     triple_to_img |-> [k \in 1..Len(trs) |-> trs[k].img]]

SizeProfiles == UNION {[1..n -> 1..MaxObjs] : n \in 1..MaxImgs}

\* the triples of image i whose subject and object are the first or the last
\* object of the image's object range (every triple, for images of up to two
\* objects)
TripleChoices(sz) ==
    UNION {{[img |-> i - 1, t |-> <<Offset(sz, i) + s, p, Offset(sz, i) + o>>] :
              s \in {0, sz[i] - 1}, o \in {0, sz[i] - 1}, p \in Preds} :
           i \in 1..Len(sz)}

TripleSeqs(sz) == UNION {[1..n -> TripleChoices(sz)] : n \in 0..MaxTriples}

\* what the loader yields: images of unequal object counts, and one relation
\* per image, first object to last
LoaderSizes == {[i \in 1..n |-> ((i + r) % MaxObjs) + 1] : n \in 1..MaxImgs, r \in 1..MaxObjs}

LoaderTriples(sz) ==
    [i \in 1..Len(sz) |->
        [img |-> i - 1, t |-> <<Offset(sz, i), 7, Offset(sz, i) + sz[i] - 1>>]]

LoaderBatch(sz, m) == MkBatch(sz, 1, LoaderTriples(sz), m)

NoBatch ==
    [nImgs |-> 0, objs |-> <<>>, boxes |-> <<>>, masks |-> None, triples |-> <<>>,
     obj_to_img |-> <<>>, triple_to_img |-> <<>>]

\* ------------------------------------------------------- model (external)
ShiftBox(b, q) == <<b[1] + q, b[2], b[3] + q, b[4]>>

ModelOut(b, q) ==
    [imgs_pred |-> b.nImgs,
     boxes_pred |-> [k \in 1..Len(b.boxes) |-> ShiftBox(b.boxes[k], q)],
     masks_pred |-> [k \in 1..Len(b.objs) |-> 200 + k]]

NoOut == [imgs_pred |-> 0, boxes_pred |-> <<>>, masks_pred |-> <<>>]

\* ------------------------------------------------------------- jaccard
Area(b) == (b[3] - b[1]) * (b[4] - b[2])

Inter(a, b) ==
    LET w == Min(a[3], b[3]) - Max(a[1], b[1])
        h == Min(a[4], b[4]) - Max(a[2], b[2])
    IN IF w > 0 /\ h > 0 THEN w * h ELSE 0

Union(a, b) == Area(a) + Area(b) - Inter(a, b)

\* IoU in thousandths
IoU(a, b) == IF Union(a, b) = 0 THEN 0 ELSE (Inter(a, b) * 1000) \div Union(a, b)

Jaccard(boxes_pred, boxes) ==
    LET n == Len(boxes_pred)
        v == [k \in 1..n |-> IoU(boxes_pred[k], boxes[k])]
    IN [iou |-> SumSeq(v),
        bigger_05 |-> Cardinality({k \in 1..n : v[k] >= 500}),
        bigger_03 |-> Cardinality({k \in 1..n : v[k] >= 300})]

\* --------------------------------------------------- split_graph_batch
RECURSIVE FirstAppearance(_)
FirstAppearance(m) ==
    IF m = <<>> THEN <<>>
    ELSE <<Head(m)>> \o SelectSeq(FirstAppearance(Tail(m)), LAMBDA x : x # Head(m))

\* positions of map holding image im, in order
Idxs(map, im) == SelectSeq([k \in 1..Len(map) |-> k], LAMBDA k : map[k] = im)

Pick(t, idxs) == [j \in 1..Len(idxs) |-> t[idxs[j]]]

Rebase(tr, off) == <<tr[1] - off, tr[2], tr[3] - off>>

SplitGraphBatch(triples, obj_data, obj_to_img, triple_to_img) ==
    LET ims == FirstAppearance(obj_to_img)
        start(im) == Idxs(obj_to_img, im)[1] - 1
    IN [triples |->
            [n \in 1..Len(ims) |->
                LET cur == Pick(triples, Idxs(triple_to_img, ims[n]))
                IN [k \in 1..Len(cur) |-> Rebase(cur[k], start(ims[n]))]],
        obj_data |->
            [j \in 1..Len(obj_data) |->
                [n \in 1..Len(ims) |-> Pick(obj_data[j], Idxs(obj_to_img, ims[n]))]]]

\* run_model's two calls: predicted tensors, then ground-truth tensors
RunModelSplit_gt(b, out) ==
    LET pred == SplitGraphBatch(b.triples, <<b.objs, out.boxes_pred, out.masks_pred>>,
                                b.obj_to_img, b.triple_to_img)
        gt_data == IF b.masks.some THEN <<b.boxes, b.masks.val>> ELSE <<b.boxes>>
        gt == SplitGraphBatch(b.triples, gt_data, b.obj_to_img, b.triple_to_img)
    IN [objs |-> pred.obj_data[1],
        boxes_pred |-> pred.obj_data[2],
        masks_pred |-> pred.obj_data[3],
        triples |-> gt.triples,
        boxes_gt |-> pred.obj_data[2],
        masks_gt |-> IF b.masks.some THEN Some(gt.obj_data[2]) ELSE None]

RunModelSplit(b, out) ==
    LET pred == SplitGraphBatch(b.triples, <<b.objs, out.boxes_pred, out.masks_pred>>,
                                b.obj_to_img, b.triple_to_img)
        gt_data == IF b.masks.some THEN <<b.boxes, b.masks.val>> ELSE <<b.boxes>>
        gt == SplitGraphBatch(b.triples, gt_data, b.obj_to_img, b.triple_to_img)
    IN [objs |-> pred.obj_data[1],
        boxes_pred |-> pred.obj_data[2],
        masks_pred |-> pred.obj_data[3],
        triples |-> gt.triples,
        boxes_gt |-> gt.obj_data[1],
        masks_gt |-> IF b.masks.some THEN Some(gt.obj_data[2]) ELSE None]

NoSplit ==
    [objs |-> <<>>, boxes_pred |-> <<>>, masks_pred |-> <<>>, triples |-> <<>>,
     boxes_gt |-> <<>>, masks_gt |-> None]

\* ----------------------------------------------------------------- state
VARIABLES
    pc,            \* position in the script
    entry,         \* "main": the command line; "call": run_model called directly
    args,          \* the parsed arguments
    isfile,        \* os.path.isfile(features_path): "unchecked", "yes", "no"
    model_built,   \* build_model has run
    error,         \* the exception that ended the run, or "none"
    dirs,          \* output directories created
    files,         \* <<directory, filename>> written by imsave
    img_idx, total_iou, total_boxes, r_05, r_03,
    fetched,       \* batches taken from the loader
    batch,         \* the current batch
    model_out,     \* the model's output for it
    split,         \* the per-image lists after split_graph_batch
    i,             \* index of the image being written
    log,           \* history: the steps taken, in order
    delivered,     \* history: per-batch statistics, in order
    summary        \* the values printed after the pass

vars == <<pc, entry, args, isfile, model_built, error, dirs, files, img_idx,
          total_iou, total_boxes, r_05, r_03, fetched, batch, model_out, split,
          i, log, delivered, summary>>

\* log entries: the step, the batch it belongs to (1-based) and that batch's
\* image count n; for a write the image index i, the file name and the
\* directories written
Event(ev, b, n) ==
    [ev |-> ev, b |-> b, n |-> n, i |-> -1, name |-> NoName, kinds |-> {}]

Args ==
    [checkpoint : {None, Some("model.pt")},
     sample_features : BOOLEAN,
     save_gt_imgs : BOOLEAN,
     save_graphs : BOOLEAN,
     save_layout : BOOLEAN]

Init ==
    /\ entry \in {"main", "call"}
    /\ args \in Args
    /\ entry = "call" => args.checkpoint.some
    /\ pc = IF entry = "main" THEN "main" ELSE "run_model"
    /\ isfile = "unchecked"
    /\ model_built = FALSE
    /\ error = "none"
    /\ dirs = {}
    /\ files = {}
    /\ img_idx = 0 /\ total_iou = 0 /\ total_boxes = 0 /\ r_05 = 0 /\ r_03 = 0
    /\ fetched = 0
    /\ batch = NoBatch
    /\ model_out = NoOut
    /\ split = NoSplit
    /\ i = 0
    /\ log = <<>>
    /\ delivered = <<>>
    /\ summary = <<>>

Abort(e) == pc' = "aborted" /\ error' = e

\* ------------------------------------------------------------ __main__
\* parse_args rejects a command line without the required --checkpoint;
\* the script then tests args.checkpoint itself.
Main ==
    /\ pc = "main"
    /\ IF ~args.checkpoint.some
       THEN Abort("argparse: --checkpoint is required")
       ELSE IF args.checkpoint # None
            THEN Abort("Must specify --checkpoint")
            ELSE pc' = "run_model" /\ error' = error
    /\ UNCHANGED <<entry, args, isfile, model_built, dirs, files, img_idx, total_iou,
                   total_boxes, r_05, r_03, fetched, batch, model_out, split, i, log,
                   delivered, summary>>

\* ----------------------------------------------------------- run_model
FeaturesCheck_noraise(sample_features, present) ==
    IF sample_features /\ present THEN "loaded" ELSE "none"

FeaturesCheck(sample_features, present) ==
    IF sample_features
    THEN IF present THEN "loaded" ELSE "raise"
    ELSE "none"

CheckFeatures ==
    /\ pc = "run_model"
    /\ \E present \in BOOLEAN :
        /\ isfile' = IF args.sample_features
                     THEN (IF present THEN "yes" ELSE "no")
                     ELSE "unchecked"
        /\ IF FeaturesCheck(args.sample_features, present) = "raise"
           THEN Abort("No features file")
           ELSE pc' = "setup" /\ error' = error
    /\ UNCHANGED <<entry, args, model_built, dirs, files, img_idx, total_iou,
                   total_boxes, r_05, r_03, fetched, batch, model_out, split, i, log,
                   delivered, summary>>

\* makedir(base, name, flag)
Makedir(name, flag) == IF flag THEN {name} ELSE {}

Setup ==
    /\ pc = "setup"
    /\ model_built' = TRUE
    /\ dirs' = dirs \cup Makedir("images", TRUE)
                    \cup Makedir("graphs", args.save_graphs)
                    \cup Makedir("images_gt", args.save_gt_imgs)
                    \cup Makedir("layouts", args.save_layout)
    /\ img_idx' = 0 /\ total_iou' = 0 /\ total_boxes' = 0 /\ r_05' = 0 /\ r_03' = 0
    /\ pc' = "loop"
    /\ UNCHANGED <<entry, args, isfile, error, files, fetched, batch, model_out,
                   split, i, log, delivered, summary>>

\* for batch in loader: the loader yields another batch, and every element
\* of it is moved to the device with x.cuda()
Fetch ==
    /\ pc = "loop"
    /\ fetched < MaxBatches
    /\ \E sz \in LoaderSizes, m \in BOOLEAN :
       LET b == LoaderBatch(sz, m) IN
        /\ batch' = b
        /\ fetched' = fetched + 1
        /\ IF ~b.masks.some
           THEN Abort("AttributeError: 'NoneType' object has no attribute 'cuda'")
                /\ log' = log
           ELSE /\ pc' = "invoke"
                /\ error' = error
                /\ log' = Append(log, Event("fetch", fetched + 1, b.nImgs))
    /\ UNCHANGED <<entry, args, isfile, model_built, dirs, files, img_idx, total_iou,
                   total_boxes, r_05, r_03, model_out, split, i, delivered, summary>>

\* the model call returns
Invoke ==
    /\ pc = "invoke"
    /\ \E q \in PredShifts : model_out' = ModelOut(batch, q)
    /\ log' = Append(log, Event("invoke", fetched, batch.nImgs))
    /\ pc' = "metric"
    /\ UNCHANGED <<entry, args, isfile, model_built, error, dirs, files, img_idx,
                   total_iou, total_boxes, r_05, r_03, fetched, batch, split, i,
                   delivered, summary>>

InvokeFail_swallow ==
    /\ pc = "invoke"
    /\ error' = "ModelInvocationFailure"
    /\ pc' = "loop"
    /\ UNCHANGED <<entry, args, isfile, model_built, dirs, files, img_idx, total_iou,
                   total_boxes, r_05, r_03, fetched, batch, model_out, split, i, log,
                   delivered, summary>>

\* the model call raises
InvokeFail ==
    /\ pc = "invoke"
    /\ Abort("ModelInvocationFailure")
    /\ UNCHANGED <<entry, args, isfile, model_built, dirs, files, img_idx, total_iou,
                   total_boxes, r_05, r_03, fetched, batch, model_out, split, i, log,
                   delivered, summary>>

Totals == [total_iou |-> total_iou, r_05 |-> r_05, r_03 |-> r_03,
           total_boxes |-> total_boxes]

AddTotals_assign(t, st, n) ==
    [total_iou |-> st.iou,
     r_05 |-> t.r_05 + st.bigger_05,
     r_03 |-> t.r_03 + st.bigger_03,
     total_boxes |-> t.total_boxes + n]

AddTotals(t, st, n) ==
    [total_iou |-> t.total_iou + st.iou,
     r_05 |-> t.r_05 + st.bigger_05,
     r_03 |-> t.r_03 + st.bigger_03,
     total_boxes |-> t.total_boxes + n]

Metric_again ==
    /\ pc = "metric"
    /\ LET st == Jaccard(model_out.boxes_pred, batch.boxes)
           n == Len(model_out.boxes_pred)
           t == AddTotals(AddTotals(Totals, st, n), st, n)
       IN /\ total_iou' = t.total_iou
          /\ r_05' = t.r_05
          /\ r_03' = t.r_03
          /\ total_boxes' = t.total_boxes
          /\ delivered' = Append(delivered, [st |-> st, n |-> n])
    /\ log' = Append(Append(log, Event("metric", fetched, batch.nImgs)),
                     Event("metric", fetched, batch.nImgs))
    /\ pc' = "split"
    /\ UNCHANGED <<entry, args, isfile, model_built, error, dirs, files, img_idx,
                   fetched, batch, model_out, split, i, summary>>

Metric ==
    /\ pc = "metric"
    /\ LET st == Jaccard(model_out.boxes_pred, batch.boxes)
           n == Len(model_out.boxes_pred)
           t == AddTotals(Totals, st, n)
       IN /\ total_iou' = t.total_iou
          /\ r_05' = t.r_05
          /\ r_03' = t.r_03
          /\ total_boxes' = t.total_boxes
          /\ delivered' = Append(delivered, [st |-> st, n |-> n])
    /\ log' = Append(log, Event("metric", fetched, batch.nImgs))
    /\ pc' = "split"
    /\ UNCHANGED <<entry, args, isfile, model_built, error, dirs, files, img_idx,
                   fetched, batch, model_out, split, i, summary>>

\* both split_graph_batch calls and one_hot_to_rgb
Split ==
    /\ pc = "split"
    /\ split' = RunModelSplit(batch, model_out)
    /\ i' = 0
    /\ log' = Append(log, Event("split", fetched, batch.nImgs))
    /\ pc' = "write"
    /\ UNCHANGED <<entry, args, isfile, model_built, error, dirs, files, img_idx,
                   total_iou, total_boxes, r_05, r_03, fetched, batch, model_out,
                   delivered, summary>>

\* the directories one image is saved under, in the order of the imsave calls
ArtifactDirs_gate(a) ==
    SelectSeq(<<"images_gt", "layouts", "images", "graphs">>,
              LAMBDA d : \/ d = "images_gt" /\ a.save_gt_imgs
                         \/ d = "layouts" /\ a.save_gt_imgs
                         \/ d = "images"
                         \/ d = "graphs" /\ a.save_graphs)

ArtifactDirs(a) ==
    SelectSeq(<<"images_gt", "layouts", "images", "graphs">>,
              LAMBDA d : \/ d = "images_gt" /\ a.save_gt_imgs
                         \/ d = "layouts" /\ a.save_layout
                         \/ d = "images"
                         \/ d = "graphs" /\ a.save_graphs)

IncImgIdx_none(n) == n

IncImgIdx(n) == n + 1

\* one iteration of the loop over imgs_pred
WriteImage ==
    /\ pc = "write"
    /\ i < model_out.imgs_pred
    /\ LET ds == ArtifactDirs(args)
           kinds == {ds[k] : k \in 1..Len(ds)}
           img_filename == ImgFilename(img_idx)
       IN /\ files' = files \cup {<<d, img_filename>> : d \in kinds}
          /\ log' = Append(log, [Event("write", fetched, batch.nImgs) EXCEPT
                                     !.i = i, !.name = img_filename, !.kinds = kinds])
    /\ img_idx' = IncImgIdx(img_idx)
    /\ i' = i + 1
    /\ UNCHANGED <<pc, entry, args, isfile, model_built, error, dirs, total_iou,
                   total_boxes, r_05, r_03, fetched, batch, model_out, split,
                   delivered, summary>>

\* one of the iteration's imsave calls raises
WriteFail ==
    /\ pc = "write"
    /\ i < model_out.imgs_pred
    /\ LET ds == ArtifactDirs(args)
       IN \E k \in 1..Len(ds) :
            files' = files \cup {<<ds[j], ImgFilename(img_idx)>> : j \in 1..(k - 1)}
    /\ Abort("imsave failed")
    /\ UNCHANGED <<entry, args, isfile, model_built, dirs, img_idx, total_iou,
                   total_boxes, r_05, r_03, fetched, batch, model_out, split, i, log,
                   delivered, summary>>

\* print('Saved %d images'); the names bound by the iteration are dead from
\* here on and are cleared
EndBatch ==
    /\ pc = "write"
    /\ i = model_out.imgs_pred
    /\ pc' = "loop"
    /\ batch' = NoBatch /\ model_out' = NoOut /\ split' = NoSplit /\ i' = 0
    /\ UNCHANGED <<entry, args, isfile, model_built, error, dirs, files, img_idx,
                   total_iou, total_boxes, r_05, r_03, fetched, log, delivered,
                   summary>>

\* the loader is exhausted
LoaderExhausted ==
    /\ pc = "loop"
    /\ pc' = "report"
    /\ UNCHANGED <<entry, args, isfile, model_built, error, dirs, files, img_idx,
                   total_iou, total_boxes, r_05, r_03, fetched, batch, model_out,
                   split, i, log, delivered, summary>>

\* avg_iou = total_iou / total_boxes and the three prints; the values are
\* in thousandths
Report ==
    /\ pc = "report"
    /\ IF total_boxes = 0
       THEN Abort("ZeroDivisionError") /\ summary' = summary
       ELSE /\ summary' = <<total_iou \div total_boxes,
                            (r_05 * 1000) \div total_boxes,
                            (r_03 * 1000) \div total_boxes>>
            /\ pc' = "done"
            /\ error' = error
    /\ UNCHANGED <<entry, args, isfile, model_built, dirs, files, img_idx, total_iou,
                   total_boxes, r_05, r_03, fetched, batch, model_out, split, i, log,
                   delivered>>

Next ==
    \/ Main
    \/ CheckFeatures
    \/ Setup
    \/ Fetch
    \/ Invoke
    \/ InvokeFail
    \/ Metric
    \/ Split
    \/ WriteImage
    \/ WriteFail
    \/ EndBatch
    \/ LoaderExhausted
    \/ Report

Spec == Init /\ [][Next]_vars

\* ------------------------------------------- split on its own: any batch
SplitArgs ==
    [checkpoint |-> Some("model.pt"), sample_features |-> FALSE,
     save_gt_imgs |-> FALSE, save_graphs |-> FALSE, save_layout |-> FALSE]

SplitInit ==
    /\ entry = "call"
    /\ args = SplitArgs
    /\ pc = "split"
    /\ isfile = "unchecked"
    /\ model_built = TRUE
    /\ error = "none"
    /\ dirs = {"images"}
    /\ files = {}
    /\ img_idx = 0 /\ total_iou = 0 /\ total_boxes = 0 /\ r_05 = 0 /\ r_03 = 0
    /\ fetched = 1
    /\ \E sz \in SizeProfiles, c \in Cats, m \in BOOLEAN :
        \E trs \in TripleSeqs(sz) : batch = MkBatch(sz, c, trs, m)
    /\ model_out = ModelOut(batch, 1)
    /\ split = NoSplit
    /\ i = 0
    /\ log = <<>>
    /\ delivered = <<>>
    /\ summary = <<>>

SplitNext == Split

SpecSplit == SplitInit /\ [][SplitNext]_vars

\* ================================================================ claims
Writes == SelectSeq(log, LAMBDA e : e.ev = "write")

CountEv(ev, b) == Len(SelectSeq(log, LAMBDA e : e.ev = ev /\ e.b = b))

RECURSIVE Dec(_)
Dec(s) == IF s = <<>> THEN 0 ELSE Dec(SubSeq(s, 1, Len(s) - 1)) * 10 + s[Len(s)]

AllDirs == {"images", "images_gt", "layouts", "graphs"}

\* C1: the k-th image of the pass (0-based) is saved under sequence number k,
\* zero-padded to four digits, in every directory written for it; the counter
\* equals the number of images saved so far and is never reset.
C1_SequenceNumbers ==
    LET w == Writes IN
    /\ img_idx = Len(w)
    /\ \A k \in 1..Len(w) :
        /\ Dec(w[k].name.stem) = k - 1
        /\ Len(w[k].name.stem) >= 4
        /\ w[k].name.ext = "png"
        /\ \A d \in w[k].kinds : <<d, w[k].name>> \in files
    /\ \A f \in files :
        Dec(f[2].stem) < Len(w) => f[2] = w[Dec(f[2].stem) + 1].name

C1_Witness ==
    LET w == Writes IN
    /\ Len(w) >= 3
    /\ w[Len(w)].b = 2
    /\ w[Len(w)].i = 0
    /\ Cardinality(w[Len(w)].kinds) = 4
    /\ Dec(w[Len(w)].name.stem) = 2

\* C2: the four running totals equal the sum of the per-batch statistics of
\* the batches processed so far, and accumulating those batches in any other
\* order gives the same totals.
Perms(n) == {f \in [1..n -> 1..n] : \A a, b \in 1..n : a # b => f[a] # f[b]}

RECURSIVE RunTotals(_)
RunTotals(d) ==
    IF d = <<>>
    THEN [total_iou |-> 0, r_05 |-> 0, r_03 |-> 0, total_boxes |-> 0]
    ELSE AddTotals(RunTotals(SubSeq(d, 1, Len(d) - 1)), d[Len(d)].st, d[Len(d)].n)

C2_Linearity ==
    LET N == Len(delivered) IN
    /\ total_iou = SumSeq([k \in 1..N |-> delivered[k].st.iou])
    /\ r_05 = SumSeq([k \in 1..N |-> delivered[k].st.bigger_05])
    /\ r_03 = SumSeq([k \in 1..N |-> delivered[k].st.bigger_03])
    /\ total_boxes = SumSeq([k \in 1..N |-> delivered[k].n])
    /\ \A f \in Perms(N) : RunTotals([k \in 1..N |-> delivered[f[k]]]) = Totals

C2_Witness ==
    /\ pc = "done"
    /\ Len(delivered) = 2
    /\ delivered[1] # delivered[2]
    /\ delivered[1].st.iou > 0
    /\ delivered[2].st.bigger_03 > delivered[2].st.bigger_05

\* C3: a report on a total object count of zero fails with EmptyEvaluation.
C3_EmptyEvaluation ==
    [][(pc = "report" /\ total_boxes = 0)
        => (pc' = "aborted" /\ error' = "EmptyEvaluation")]_vars

\* C4: when feature sampling is requested and the feature file is absent the
\* run ends with the missing-file error, and no model has been built, no
\* batch fetched, no directory created and no file written.
C4_FailFast ==
    isfile = "no" =>
        /\ pc = "aborted"
        /\ error = "No features file"
        /\ ~model_built
        /\ fetched = 0
        /\ dirs = {}
        /\ files = {}
        /\ log = <<>>
        /\ summary = <<>>

C4_Witness == args.sample_features /\ isfile = "no" /\ pc = "aborted"

\* C5: every image handled is saved under images; under images_gt iff
\* save_gt_imgs, under layouts iff save_layout, under graphs iff save_graphs;
\* and every image of every batch whose handling ended was handled.
BatchEnded(b) == b < fetched \/ (b = fetched /\ pc \in {"loop", "report", "done"})

C5_Artifacts ==
    LET w == Writes IN
    /\ \A k \in 1..Len(w) :
        /\ "images" \in w[k].kinds
        /\ "images_gt" \in w[k].kinds <=> args.save_gt_imgs
        /\ "layouts" \in w[k].kinds <=> args.save_layout
        /\ "graphs" \in w[k].kinds <=> args.save_graphs
        /\ w[k].kinds \subseteq dirs
        /\ \A d \in AllDirs : <<d, w[k].name>> \in files <=> d \in w[k].kinds
    /\ \A k \in 1..Len(log) :
        (log[k].ev = "fetch" /\ BatchEnded(log[k].b)) =>
            \A j \in 0..(log[k].n - 1) :
                \E x \in 1..Len(w) : w[x].b = log[k].b /\ w[x].i = j

C5_Witness ==
    /\ pc = "done"
    /\ fetched = 2
    /\ Len(Writes) >= 3
    /\ args.save_layout /\ ~args.save_gt_imgs /\ ~args.save_graphs

\* C6: a summary is printed only by a run that handled every batch it fetched
\* without an error; a run that hit an error has stopped for good, with no
\* summary value printed, no further batch fetched and nothing done again.
C6_Inv ==
    /\ summary # <<>> =>
        /\ pc = "done"
        /\ error = "none"
        /\ Len(summary) = 3
        /\ \A b \in 1..fetched : CountEv("fetch", b) = 1 /\ CountEv("split", b) = 1
    /\ pc = "done" => summary # <<>>
    /\ error # "none" => pc = "aborted" /\ summary = <<>>

C6_AllOrNothing ==
    /\ []C6_Inv
    /\ [][error # "none" => UNCHANGED vars]_vars

C6_Witness ==
    /\ pc = "aborted"
    /\ error = "ModelInvocationFailure"
    /\ fetched = 2
    /\ Len(delivered) = 1
    /\ summary = <<>>

\* C7: re-flattening the per-image lists in order, with each image's object
\* offset (recomputed from the slice lengths) added back to the triples'
\* indices, gives back the batch: the objects and every object-aligned
\* tensor in their order, the object-to-image map, and every triple with the
\* indices it had; the triples come back image by image, which is their
\* original order whenever triple_to_img is non-decreasing.
RecOffset(n) == SumSeq([j \in 1..(n - 1) |-> Len(split.objs[j])])

Unbase(tr, off) == <<tr[1] + off, tr[2], tr[3] + off>>

ReflatTriples ==
    Concat([n \in 1..Len(split.triples) |->
               [k \in 1..Len(split.triples[n]) |->
                   Unbase(split.triples[n][k], RecOffset(n))]])

ReflatObjToImg ==
    Concat([n \in 1..Len(split.objs) |-> [k \in 1..Len(split.objs[n]) |-> n - 1]])

ReflatTripleToImg ==
    Concat([n \in 1..Len(split.triples) |-> [k \in 1..Len(split.triples[n]) |-> n - 1]])

ByImage(t, map) == Concat([n \in 1..batch.nImgs |-> Pick(t, Idxs(map, n - 1))])

IsSorted(m) == \A a, b \in 1..Len(m) : a < b => m[a] <= m[b]

C8_MaskFallback ==
    (batch # NoBatch /\ ~batch.masks.some) =>
        error # "AttributeError: 'NoneType' object has no attribute 'cuda'"

\* C9: the steps of one batch come in the order fetch, model call, metric
\* update, split, writes (by image index), each of the first four once; a
\* batch is fetched only right after the last write of the batch before it;
\* the totals are updated once per batch and the counter once per image.
C9_StepOK(q) ==
    LET e == log[q]
        d == log[q - 1]
    IN CASE e.ev = "fetch" ->
              \/ q = 1 /\ e.b = 1
              \/ q > 1 /\ d.ev = "write" /\ d.i = d.n - 1 /\ e.b = d.b + 1
         [] e.ev = "invoke" -> q > 1 /\ d.ev = "fetch" /\ d.b = e.b
         [] e.ev = "metric" -> q > 1 /\ d.ev = "invoke" /\ d.b = e.b
         [] e.ev = "split" -> q > 1 /\ d.ev = "metric" /\ d.b = e.b
         [] e.ev = "write" ->
              /\ q > 1 /\ d.b = e.b /\ e.i < e.n
              /\ \/ d.ev = "split" /\ e.i = 0
                 \/ d.ev = "write" /\ e.i = d.i + 1

C9_StrictOrder ==
    /\ \A q \in 1..Len(log) : C9_StepOK(q)
    /\ Len(delivered) = Len(SelectSeq(log, LAMBDA e : e.ev = "metric"))
    /\ img_idx = Len(Writes)

C9_Witness ==
    /\ pc = "done"
    /\ fetched = 2
    /\ CountEv("write", 1) = 2
    /\ CountEv("write", 2) = 2

\* C10: the entry point raises 'Must specify --checkpoint' only when no
\* checkpoint path was given.
C10_CheckpointGuard ==
    error = "Must specify --checkpoint" => ~args.checkpoint.some

====
